---------------------------- MODULE Spec2Model ----------------------------
(***************************************************************************)
(* Model of the root command of tms (cmd/root.go): buildDirectoryEntries   *)
(* with its helpers processScanDir, createDisplayName and shouldSkipEntry, *)
(* and rootCmd.RunE (collect names, sort, picker, session launch).         *)
(*                                                                         *)
(* Strings are TLA+ strings; a path is the string the Go code handles.     *)
(* The packages utility, models, tmux and fzf lie outside cmd/root.go:     *)
(* ResolvePath, GetSubDirs, GetDepth and the picker's outcomes follow      *)
(* their documented contracts over a small fixed directory tree.           *)
(***************************************************************************)
EXTENDS Integers, Sequences, FiniteSets, TLC

(* ------------------------------ bounds -------------------------------- *)

MaxScanDirs == 2

MaxEntryDirs == 1

MaxSessions == 2

(* --------------------------- string helpers --------------------------- *)

\* The characters that occur in the model, in ascending byte order.
Alphabet == <<" ", "(", ")", "/", "M", "T", "U", "X", "a", "b", "e", "g", "h",
              "l", "m", "p", "q", "t", "w", "z">>

\* The rank of a one-character string in byte order.
Code(c) == CHOOSE i \in 1..Len(Alphabet) : Alphabet[i] = c

Char(s, i) == SubSeq(s, i, i)

RECURSIVE CompareFrom(_, _, _)
CompareFrom(a, b, i) ==
    IF i > Len(a) /\ i > Len(b) THEN 0
    ELSE IF i > Len(a) THEN -1
    ELSE IF i > Len(b) THEN 1
    ELSE IF Code(Char(a, i)) < Code(Char(b, i)) THEN -1
    ELSE IF Code(Char(a, i)) > Code(Char(b, i)) THEN 1
    ELSE CompareFrom(a, b, i + 1)

\* strings.Compare: -1, 0 or 1 by byte-wise lexicographic order.
Compare(a, b) == CompareFrom(a, b, 1)

\* strings.HasPrefix
HasPrefix(s, p) == Len(p) <= Len(s) /\ SubSeq(s, 1, Len(p)) = p

\* strings.CutPrefix (the string result)
CutPrefix(s, p) == IF HasPrefix(s, p) THEN SubSeq(s, Len(p) + 1, Len(s)) ELSE s

\* The index of the last "/" of s at or before i (0 when there is none).
RECURSIVE LastSlash(_, _)
LastSlash(s, i) ==
    IF i = 0 THEN 0
    ELSE IF Char(s, i) = "/" THEN i
    ELSE LastSlash(s, i - 1)

\* filepath.Base of a cleaned path.
Base(path) ==
    IF path = "" THEN "."
    ELSE IF path = "/" THEN "/"
    ELSE SubSeq(path, LastSlash(path, Len(path)) + 1, Len(path))

\* filepath.Dir of a cleaned path.
Dir(path) ==
    LET k == LastSlash(path, Len(path))
    IN  IF k = 0 THEN "."
        ELSE IF k = 1 THEN "/"
        ELSE SubSeq(path, 1, k - 1)

(* ------------------- the file system (external packages) -------------- *)

\* The directories that exist, as resolved absolute paths.
Dirs == {"/p", "/p/a", "/p/w", "/p/w/a", "/q", "/q/a", "/q/w", "/q/w/a", "/lock"}

\* The subdirectories of a directory, in the order a listing returns them.
Children(d) ==
    CASE d = "/p"   -> <<"/p/a", "/p/w">>
      [] d = "/p/w" -> <<"/p/w/a">>
      [] d = "/q"   -> <<"/q/a", "/q/w">>
      [] d = "/q/w" -> <<"/q/w/a">>
      [] OTHER      -> <<>>

\* utility.ResolvePath: "/l" is a symbolic link to /p/a; a path that does
\* not exist ("/nope", "/gone") fails to resolve.
ResolvePath(raw) ==
    IF raw = "/l" THEN [ok |-> TRUE, path |-> "/p/a"]
    ELSE IF raw \in Dirs THEN [ok |-> TRUE, path |-> raw]
    ELSE [ok |-> FALSE, path |-> ""]

RECURSIVE Walk(_, _)
\* The directories below each of roots, down to depth levels, depth first.
Walk(roots, depth) ==
    IF depth = 0 \/ roots = <<>> THEN <<>>
    ELSE <<Head(roots)>> \o Walk(Children(Head(roots)), depth - 1)
                         \o Walk(Tail(roots), depth)

\* utility.GetSubDirs: /lock cannot be read.
GetSubDirs(depth, root) ==
    IF root = "/lock" THEN [ok |-> FALSE, dirs |-> <<>>]
    ELSE [ok |-> TRUE, dirs |-> Walk(Children(root), depth)]

\* ScanDir.GetDepth: the flag, then the scan directory's own depth, then
\* the default (0 means unset).
GetDepth(scanDir, flagDepth, defaultDepth) ==
    IF flagDepth > 0 THEN flagDepth
    ELSE IF scanDir.Depth > 0 THEN scanDir.Depth
    ELSE defaultDepth

(* ----------------------- buildDirectoryEntries ------------------------ *)

\* m[k] = v of a Go map: the key is added or its value replaced.
Put(m, k, v) == [x \in (DOMAIN m) \cup {k} |-> IF x = k THEN v ELSE m[x]]

\* The empty map.
EmptyMap == [x \in {} |-> ""]

RECURSIVE BuildIgnoreSet(_, _)
\* The resolved forms of ignoreDirs[i..]; a directory that fails to resolve
\* is left out.
BuildIgnoreSet(ignoreDirs, i) ==
    IF i > Len(ignoreDirs) THEN {}
    ELSE LET r == ResolvePath(ignoreDirs[i])
         IN  (IF r.ok THEN {r.path} ELSE {}) \cup BuildIgnoreSet(ignoreDirs, i + 1)

\* The state the addPath closure works on, before the first path.
NoPaths == [allPaths |-> <<>>, pathsByBaseName |-> [x \in {} |-> <<>>], err |-> "nil"]

\* addPath looking up the path as given, not its resolved form, in the
\* ignore set.
addPathIgnoresRaw(st, path, prefix, ignoreSet, currentSession) ==
    LET r == ResolvePath(path)
        name == Base(r.path)
        info == [Path |-> r.path, Prefix |-> prefix]
        old == IF name \in DOMAIN st.pathsByBaseName
               THEN st.pathsByBaseName[name] ELSE <<>>
    IN  IF ~r.ok THEN st
        ELSE IF path \in ignoreSet THEN st
        ELSE IF name = currentSession THEN st
        ELSE [st EXCEPT !.allPaths = Append(@, info),
                        !.pathsByBaseName = Put(@, name, Append(old, info))]

\* The addPath closure: st holds allPaths and pathsByBaseName.
addPath(st, path, prefix, ignoreSet, currentSession) ==
    LET r == ResolvePath(path)
        name == Base(r.path)
        info == [Path |-> r.path, Prefix |-> prefix]
        old == IF name \in DOMAIN st.pathsByBaseName
               THEN st.pathsByBaseName[name] ELSE <<>>
    IN  IF ~r.ok THEN st
        ELSE IF r.path \in ignoreSet THEN st
        ELSE IF name = currentSession THEN st
        ELSE [st EXCEPT !.allPaths = Append(@, info),
                        !.pathsByBaseName = Put(@, name, Append(old, info))]

RECURSIVE AddSubDirs(_, _, _, _, _, _)
\* The loop of processScanDir over subDirs[i..]; it stops at the first error.
AddSubDirs(st, subDirs, i, prefix, ignoreSet, currentSession) ==
    IF i > Len(subDirs) \/ st.err # "nil" THEN st
    ELSE AddSubDirs(addPath(st, subDirs[i], prefix, ignoreSet, currentSession),
                    subDirs, i + 1, prefix, ignoreSet, currentSession)

\* processScanDir returning the error of a scan directory that fails to
\* resolve or to scan.
processScanDirPropagates(st, scanDir, flagDepth, defaultDepth, prefix, ignoreSet, currentSession) ==
    LET effectiveDepth == GetDepth(scanDir, flagDepth, defaultDepth)
        r == ResolvePath(scanDir.Path)
        sub == GetSubDirs(effectiveDepth, r.path)
    IN  IF ~r.ok THEN [st EXCEPT !.err = "failed to resolve scan directory"]
        ELSE IF ~sub.ok THEN [st EXCEPT !.err = "failed to scan directory"]
        ELSE AddSubDirs(st, sub.dirs, 1, prefix, ignoreSet, currentSession)

processScanDir(st, scanDir, flagDepth, defaultDepth, prefix, ignoreSet, currentSession) ==
    LET effectiveDepth == GetDepth(scanDir, flagDepth, defaultDepth)
        r == ResolvePath(scanDir.Path)
        sub == GetSubDirs(effectiveDepth, r.path)
    IN  IF ~r.ok THEN st
        ELSE IF ~sub.ok THEN st
        ELSE AddSubDirs(st, sub.dirs, 1, prefix, ignoreSet, currentSession)

RECURSIVE ScanAll(_, _, _, _, _, _)
\* The loop over cfg.ScanDirs[i..]; it stops at the first error.
ScanAll(st, c, i, flagDepth, ignoreSet, currentSession) ==
    IF i > Len(c.ScanDirs) \/ st.err # "nil" THEN st
    ELSE ScanAll(processScanDir(st, c.ScanDirs[i], flagDepth, c.DefaultDepth,
                                c.ScanDirs[i].Alias, ignoreSet, currentSession),
                 c, i + 1, flagDepth, ignoreSet, currentSession)

RECURSIVE AddEntryDirs(_, _, _, _, _)
\* The loop over cfg.EntryDirs[i..]; it stops at the first error.
AddEntryDirs(st, c, i, ignoreSet, currentSession) ==
    IF i > Len(c.EntryDirs) \/ st.err # "nil" THEN st
    ELSE AddEntryDirs(addPath(st, c.EntryDirs[i], "", ignoreSet, currentSession),
                      c, i + 1, ignoreSet, currentSession)

createDisplayName(info, pathsByBaseName) ==
    LET name == Base(info.Path)
        pathsWithSameName == pathsByBaseName[name]
        parent == Base(Dir(info.Path))
        displayName == IF Len(pathsWithSameName) > 1
                       THEN name \o " (" \o parent \o ")"
                       ELSE name
    IN  IF info.Prefix # "" THEN info.Prefix \o "/" \o displayName ELSE displayName

\* shouldSkipEntry without the look-up in the existing sessions.
shouldSkipCurrentOnly(displayName, currentSession, existingSessions) ==
    displayName = currentSession

shouldSkipEntry(displayName, currentSession, existingSessions) ==
    displayName = currentSession \/ displayName \in existingSessions

RECURSIVE NameAll(_, _, _, _, _)
\* The loop over allPaths[i..] that fills entries with the directory
\* candidates, in the order they were collected.
NameAll(entries, st, i, currentSession, existingSessions) ==
    IF i > Len(st.allPaths) THEN entries
    ELSE LET info == st.allPaths[i]
             displayName == createDisplayName(info, st.pathsByBaseName)
         IN  NameAll(IF shouldSkipEntry(displayName, currentSession, existingSessions)
                     THEN entries
                     ELSE Put(entries, displayName, info.Path),
                     st, i + 1, currentSession, existingSessions)

RECURSIVE AddSessions(_, _, _, _)
\* The loop over the existing sessions (a Go map: any order).
AddSessions(entries, todo, prefix, currentSession) ==
    IF todo = {} THEN entries
    ELSE LET sessionName == CHOOSE s \in todo : TRUE
         IN  AddSessions(IF sessionName = currentSession
                         THEN entries
                         ELSE Put(entries, prefix \o sessionName, sessionName),
                         todo \ {sessionName}, prefix, currentSession)

\* buildDirectoryEntries: the returned map and error, with the locals
\* allPaths and pathsByBaseName, and dirEntries, the map as it is before
\* the existing sessions are added.
buildDirectoryEntries(c, flagDepth, existingSessions, currentSession) ==
    LET ignoreSet == BuildIgnoreSet(c.IgnoreDirs, 1)
        scanned == ScanAll(NoPaths, c, 1, flagDepth, ignoreSet, currentSession)
        st == AddEntryDirs(scanned, c, 1, ignoreSet, currentSession)
        dirEntries == NameAll(EmptyMap, st, 1, currentSession, existingSessions)
    IN  IF st.err # "nil"
        THEN [entries |-> EmptyMap, err |-> st.err, allPaths |-> st.allPaths,
              pathsByBaseName |-> st.pathsByBaseName, dirEntries |-> EmptyMap]
        ELSE [entries |-> AddSessions(dirEntries, existingSessions,
                                      c.TmuxSessionPrefix, currentSession),
              err |-> "nil", allPaths |-> st.allPaths,
              pathsByBaseName |-> st.pathsByBaseName, dirEntries |-> dirEntries]

(* ------------------------------ RunE ---------------------------------- *)

\* The comparison without the rule that session names come first.
cmpNamesPlain(a, b, prefix) == Compare(a, b)

\* The comparison function given to slices.SortFunc.
cmpNames(a, b, prefix) ==
    LET isTmuxA == HasPrefix(a, prefix)
        isTmuxB == HasPrefix(b, prefix)
    IN  IF isTmuxA /\ ~isTmuxB THEN -1
        ELSE IF ~isTmuxA /\ isTmuxB THEN 1
        ELSE Compare(a, b)

\* data with the elements at i and j exchanged.
Swap(data, i, j) == [data EXCEPT ![i] = data[j], ![j] = data[i]]

RECURSIVE SiftDown(_, _, _)
\* The inner loop of the insertion sort: data[j] moves towards the front
\* while it compares less than its predecessor.
SiftDown(data, j, prefix) ==
    IF j > 1 /\ cmpNames(data[j], data[j - 1], prefix) < 0
    THEN SiftDown(Swap(data, j, j - 1), j - 1, prefix)
    ELSE data

RECURSIVE InsertionSort(_, _, _)
\* slices.SortFunc on a short slice: insertion sort from index i on.
InsertionSort(data, i, prefix) ==
    IF i > Len(data) THEN data
    ELSE InsertionSort(SiftDown(data, i, prefix), i + 1, prefix)

SortFunc(data, prefix) == InsertionSort(data, 2, prefix)

RECURSIVE SetToSeq(_)
\* The elements of a finite set in some order.
SetToSeq(S) ==
    IF S = {} THEN <<>>
    ELSE LET x == CHOOSE y \in S : TRUE IN <<x>> \o SetToSeq(S \ {x})

\* s read from position k on, wrapping around.
Rotate(s, k) == [i \in 1..Len(s) |-> s[((i + k - 1) % Len(s)) + 1]]

Reverse(s) == [i \in 1..Len(s) |-> s[Len(s) + 1 - i]]

\* The orders in which a range over map m may yield its keys: the
\* iteration starts at a position the runtime picks, in either direction.
RangeOrders(m) ==
    LET base == SetToSeq(DOMAIN m)
    IN  IF base = <<>> THEN {<<>>}
        ELSE UNION {{Rotate(base, k), Reverse(Rotate(base, k))} : k \in 0..(Len(base) - 1)}

VARIABLES cfg, flagDepth, args, existingSessions, currentSession,
          pc, entries, dirEntries, allPaths, pathsByBaseName,
          names, choiceStr, pickerOutcome, launched, buildErr, result

vars == <<cfg, flagDepth, args, existingSessions, currentSession,
          pc, entries, dirEntries, allPaths, pathsByBaseName,
          names, choiceStr, pickerOutcome, launched, buildErr, result>>

inputs == <<cfg, flagDepth, args, existingSessions, currentSession>>

\* The session layout of the configuration (not looked into here).
Layout == "layout"

\* A name that is no key of any entries map of the model.
NoEntry == "zz"

\* RunE up to the positional argument: the entries are built, and the
\* argument, when there is one, is the choice.
BuildEntries ==
    /\ pc = "start"
    /\ LET b == buildDirectoryEntries(cfg, flagDepth, existingSessions, currentSession)
           choice == IF Len(args) = 1 THEN args[1] ELSE ""
       IN  /\ entries' = b.entries
           /\ dirEntries' = b.dirEntries
           /\ allPaths' = b.allPaths
           /\ pathsByBaseName' = b.pathsByBaseName
           /\ choiceStr' = choice
           /\ buildErr' = b.err
           /\ IF b.err # "nil"
              THEN pc' = "exit" /\ result' = b.err
              ELSE pc' = (IF choice = "" THEN "collect" ELSE "resolve") /\ result' = result
    /\ UNCHANGED <<inputs, names, pickerOutcome, launched>>

\* The names are collected from the map, sorted, and handed to the picker.
SortNames ==
    /\ pc = "collect"
    /\ \E order \in RangeOrders(entries) :
          names' = SortFunc(order, cfg.TmuxSessionPrefix)
    /\ pc' = "picker"
    /\ UNCHANGED <<inputs, entries, dirEntries, allPaths, pathsByBaseName,
                   choiceStr, pickerOutcome, launched, buildErr, result>>

\* The error of the picker dropped: RunE goes on with the empty choice
\* to the look-up.
PickerCancelledIgnored ==
    /\ pc = "picker"
    /\ pickerOutcome' = "cancelled"
    /\ pc' = "resolve"
    /\ UNCHANGED <<inputs, entries, dirEntries, allPaths, pathsByBaseName,
                   names, choiceStr, launched, buildErr, result>>

\* The picker reports "user cancelled": RunE returns nil.
PickerCancelled ==
    /\ pc = "picker"
    /\ pickerOutcome' = "cancelled"
    /\ pc' = "done"
    /\ result' = "nil"
    /\ UNCHANGED <<inputs, entries, dirEntries, allPaths, pathsByBaseName,
                   names, choiceStr, launched, buildErr>>

\* The picker fails otherwise: cobra.CheckErr ends the process.
PickerFailed ==
    /\ pc = "picker"
    /\ pickerOutcome' = "failed"
    /\ pc' = "exit"
    /\ result' = "picker error"
    /\ UNCHANGED <<inputs, entries, dirEntries, allPaths, pathsByBaseName,
                   names, choiceStr, launched, buildErr>>

\* The picker returns a string: one of the names, a string that is none of
\* them, or the empty string, on which RunE returns nil.
PickerChose(c) ==
    /\ pc = "picker"
    /\ pickerOutcome' = "chose"
    /\ choiceStr' = c
    /\ IF c = ""
       THEN pc' = "done" /\ result' = "nil"
       ELSE pc' = "resolve" /\ result' = result
    /\ UNCHANGED <<inputs, entries, dirEntries, allPaths, pathsByBaseName,
                   names, launched, buildErr>>

\* The choice is looked up and the session handed to
\* tmux.CreateAndSwitchSession, which succeeds or fails.
Launch(ok) ==
    /\ pc = "resolve"
    /\ LET sessionName == CutPrefix(choiceStr, cfg.TmuxSessionPrefix)
           exists == choiceStr \in DOMAIN entries
           selectedPath == IF exists THEN entries[choiceStr] ELSE ""
           session == [Name |-> sessionName, Path |-> selectedPath, Layout |-> Layout]
       IN  IF ~exists /\ Len(args) = 0
           THEN /\ result' = "The name must match an existing directory entry"
                /\ launched' = launched
           ELSE /\ launched' = Append(launched, session)
                /\ result' = (IF ok THEN "nil" ELSE "Failed to switch session")
    /\ pc' = "done"
    /\ UNCHANGED <<inputs, entries, dirEntries, allPaths, pathsByBaseName,
                   names, choiceStr, pickerOutcome, buildErr>>

(* ------------------------------ inputs -------------------------------- *)

\* The sequences over S of length at most n.
SeqsUpTo(S, n) == UNION {[1..k -> S] : k \in 0..n}

\* The subsets of S with at most n elements.
SubsetsUpTo(S, n) == {x \in SUBSET S : Cardinality(x) <= n}

ScanDir(path, alias, depth) == [Path |-> path, Alias |-> alias, Depth |-> depth]

\* Scan directories for the naming cases: both trees, /q also behind an
\* alias, and the two directories w whose children share base and parent.
NamingScanDirs ==
    {ScanDir("/p", "", 0), ScanDir("/q", "", 0), ScanDir("/q", "T", 0),
     ScanDir("/p/w", "", 0), ScanDir("/q/w", "", 0)}

\* Scan directories for the failure cases: one that is scanned at either
\* depth, one that does not resolve, one that cannot be read.
SourceScanDirs ==
    {ScanDir("/p", "", 0), ScanDir("/p", "", 2),
     ScanDir("/nope", "", 0), ScanDir("/lock", "", 0)}

EntryDirChoices == {"/l", "/gone"}

IgnoreDirChoices == {<<>>, <<"/l">>, <<"/gone", "/q/a">>}

SessionNames == {"a", "T/a", "w"}

CurrentSessions == {"", "a", "T/a"}

SessionPrefixes == {"T/", "w", ""}

Config(scanDirs, entryDirs, ignoreDirs, prefix) ==
    [ScanDirs |-> scanDirs, EntryDirs |-> entryDirs, IgnoreDirs |-> ignoreDirs,
     TmuxSessionPrefix |-> prefix, DefaultDepth |-> 1]

\* Naming: any scan directories, sessions, current session and prefix.
InitNaming ==
    /\ \E sd \in SeqsUpTo(NamingScanDirs, MaxScanDirs), p \in SessionPrefixes :
          cfg = Config(sd, <<>>, <<>>, p)
    /\ flagDepth = 0
    /\ args = <<>>
    /\ existingSessions \in SubsetsUpTo(SessionNames, MaxSessions)
    /\ currentSession \in CurrentSessions

\* Sources: scan directories and explicit entries that fail or are
\* ignored, at the configured depth or the one of the flag.
InitSources ==
    /\ \E sd \in SeqsUpTo(SourceScanDirs, MaxScanDirs),
          ed \in SeqsUpTo(EntryDirChoices, MaxEntryDirs),
          ig \in IgnoreDirChoices :
          cfg = Config(sd, ed, ig, "T/")
    /\ flagDepth \in {0, 2}
    /\ args = <<>>
    /\ existingSessions = {"a"}
    /\ currentSession = ""

\* Positional argument: a key, the empty string, a name that is no key.
InitArgs ==
    /\ \E sd \in SeqsUpTo({ScanDir("/p", "", 0), ScanDir("/q", "T", 0)}, MaxScanDirs) :
          cfg = Config(sd, <<>>, <<>>, "T/")
    /\ flagDepth = 0
    /\ args \in {<<"">>, <<"a">>, <<"T/a">>, <<NoEntry>>}
    /\ existingSessions \in {{}, {"a"}}
    /\ currentSession = ""

Init ==
    /\ InitNaming \/ InitSources \/ InitArgs
    /\ pc = "start"
    /\ entries = EmptyMap
    /\ dirEntries = EmptyMap
    /\ allPaths = <<>>
    /\ pathsByBaseName = NoPaths.pathsByBaseName
    /\ names = <<>>
    /\ choiceStr = ""
    /\ pickerOutcome = "none"
    /\ launched = <<>>
    /\ buildErr = "nil"
    /\ result = "running"

Next ==
    \/ BuildEntries
    \/ SortNames
    \/ PickerCancelled
    \/ PickerFailed
    \/ \E c \in {names[i] : i \in 1..Len(names)} \cup {"", NoEntry} : PickerChose(c)
    \/ \E ok \in BOOLEAN : Launch(ok)

Spec == Init /\ [][Next]_vars

(* ----------------------------- properties ----------------------------- *)

\* buildDirectoryEntries has returned.
Built == pc # "start"

\* The keys the loop over the existing sessions writes.
SessionKeys == {cfg.TmuxSessionPrefix \o s : s \in existingSessions \ {currentSession}}

\* The keys of the result that come from a directory candidate and were not
\* written again by the loop over the existing sessions.
DirKeys == (DOMAIN dirEntries) \ SessionKeys

DisplayNameOf(i) == createDisplayName(allPaths[i], pathsByBaseName)

Skipped(i) == shouldSkipEntry(DisplayNameOf(i), currentSession, existingSessions)

\* The candidates with the same base name as candidate i.
SameBase(i) == {j \in 1..Len(allPaths) : Base(allPaths[j].Path) = Base(allPaths[i].Path)}

\* The name `base (parentDirName)`, behind `prefix/` when there is an alias.
QualifiedName(info) ==
    LET q == Base(info.Path) \o " (" \o Base(Dir(info.Path)) \o ")"
    IN  IF info.Prefix = "" THEN q ELSE info.Prefix \o "/" \o q

\* C1: in one run of buildDirectoryEntries the admitted candidates that
\* share a base name are each named `base (parentDirName)` (behind `prefix/`
\* for a non-empty alias), no two admitted candidates have the same display
\* name, and every admitted candidate that is not skipped has its own path
\* under its display name in the map of directory entries.
C1_DisplayNamesUnique ==
    Built =>
        /\ \A i \in 1..Len(allPaths) :
              Cardinality(SameBase(i)) > 1 => DisplayNameOf(i) = QualifiedName(allPaths[i])
        /\ \A i, j \in 1..Len(allPaths) : i # j => DisplayNameOf(i) # DisplayNameOf(j)
        /\ \A i \in 1..Len(allPaths) :
              ~Skipped(i) => /\ DisplayNameOf(i) \in DOMAIN dirEntries
                             /\ dirEntries[DisplayNameOf(i)] = allPaths[i].Path

\* C2: with a non-empty current session name, no key of the returned map
\* equals the current session's name.
C2_CurrentSessionNeverKey ==
    (Built /\ currentSession # "") => currentSession \notin DOMAIN entries

\* C3: no entry of the returned map has as its target a path whose resolved
\* form is in the ignore set built from cfg.IgnoreDirs.
C3_IgnoredNeverTarget ==
    Built => \A k \in DOMAIN entries :
                entries[k] \notin BuildIgnoreSet(cfg.IgnoreDirs, 1)

\* An ignored directory that two scan directories and an explicit entry all
\* produce, next to a directory that is not ignored and is in the map.
C3_Witness ==
    /\ Built
    /\ "/p/a" \in BuildIgnoreSet(cfg.IgnoreDirs, 1)
    /\ Len(cfg.ScanDirs) = 2
    /\ \A i \in 1..2 : cfg.ScanDirs[i].Path = "/p"
    /\ cfg.EntryDirs = <<"/l">>
    /\ \E k \in DOMAIN entries : entries[k] = "/p/w"

\* The scan directory fails to resolve or to scan.
ScanFails(scanDir) ==
    LET r == ResolvePath(scanDir.Path)
    IN  ~r.ok \/ ~GetSubDirs(GetDepth(scanDir, flagDepth, cfg.DefaultDepth), r.path).ok

ScanWorks(scanDir) == ~ScanFails(scanDir)

Resolves(path) == ResolvePath(path).ok

\* The configuration without the sources that fail.
WithoutFailing ==
    [cfg EXCEPT !.ScanDirs = SelectSeq(@, ScanWorks), !.EntryDirs = SelectSeq(@, Resolves)]

\* C4: buildDirectoryEntries returns no error when a scan directory fails
\* to resolve or to scan or an explicit entry fails to resolve, and the map
\* it returns is the one the configuration without the failing sources gives.
C4_FailingSourcesAbsorbed ==
    Built =>
        /\ buildErr = "nil"
        /\ pc # "exit" \/ pickerOutcome = "failed"
        /\ entries = buildDirectoryEntries(WithoutFailing, flagDepth,
                                           existingSessions, currentSession).entries

\* A failing scan directory and a failing explicit entry next to a scan
\* directory that yields entries, with a live session.
C4_Witness ==
    /\ Built
    /\ \E i \in 1..Len(cfg.ScanDirs) : ScanFails(cfg.ScanDirs[i])
    /\ \E i \in 1..Len(cfg.EntryDirs) : ~Resolves(cfg.EntryDirs[i])
    /\ DirKeys # {}
    /\ SessionKeys # {}

IsTmux(name) == HasPrefix(name, cfg.TmuxSessionPrefix)

\* C5: the names handed to the picker are the keys of the entries map, each
\* once, every name with the tmux session prefix before every name without
\* it, and each of the two groups in ascending lexicographic order; the
\* example of the specification sorts as it says.
C5_PickerOrder ==
    /\ pc = "picker" =>
          /\ {names[i] : i \in 1..Len(names)} = DOMAIN entries
          /\ Len(names) = Cardinality(DOMAIN entries)
          /\ \A i, j \in 1..Len(names) :
                i < j => /\ IsTmux(names[j]) => IsTmux(names[i])
                         /\ (IsTmux(names[i]) <=> IsTmux(names[j]))
                               => Compare(names[i], names[j]) < 0
    /\ Built => SortFunc(<<"alpha", "TMUX/zeta", "beta", "TMUX/gamma">>, "TMUX/")
                   = <<"TMUX/gamma", "TMUX/zeta", "alpha", "beta">>

\* The picker is handed a session name that sorts first although a name
\* without the prefix is lexicographically smaller.
C5_Witness ==
    /\ pc = "picker"
    /\ \E i, j \in 1..Len(names) :
          /\ i < j
          /\ IsTmux(names[i])
          /\ ~IsTmux(names[j])
          /\ Compare(names[j], names[i]) < 0

\* C6: no key derived from a live session equals a key derived from a
\* directory candidate, so adding the live sessions replaces no directory
\* entry's target.
C6_SessionKeysApart ==
    Built =>
        /\ SessionKeys \cap (DOMAIN dirEntries) = {}
        /\ \A k \in DOMAIN dirEntries : k \in DOMAIN entries /\ entries[k] = dirEntries[k]

\* s in the order perm gives.
Permuted(s, perm) == [i \in 1..Len(s) |-> s[perm[i]]]

\* C7: the returned map is the same for every order of cfg.ScanDirs and of
\* cfg.EntryDirs.
C7_OrderIndependent ==
    Built =>
        \A ps \in Permutations(1..Len(cfg.ScanDirs)), pe \in Permutations(1..Len(cfg.EntryDirs)) :
            buildDirectoryEntries(
                [cfg EXCEPT !.ScanDirs = Permuted(@, ps), !.EntryDirs = Permuted(@, pe)],
                flagDepth, existingSessions, currentSession).entries = entries

\* C8: no entry of the returned map whose target is a directory has a key
\* equal to the name of an existing session or to the current session name.
C8_NoDirectoryShadowsSession ==
    Built => \A k \in DOMAIN entries :
                entries[k] \in Dirs => k \notin existingSessions /\ k # currentSession

\* A candidate whose display name, with its alias, is the name of an
\* existing session is left out while another candidate is in the map.
C8_Witness ==
    /\ Built
    /\ \E i \in 1..Len(allPaths) :
          /\ DisplayNameOf(i) \in existingSessions
          /\ DisplayNameOf(i) # Base(allPaths[i].Path)
          /\ DisplayNameOf(i) \notin DirKeys
    /\ DirKeys # {}

\* C9: when the picker reports cancellation or returns the empty choice,
\* RunE ends with no error and no session is handed to
\* tmux.CreateAndSwitchSession; a session is handed over only after the
\* picker returned a non-empty choice or a positional argument was given.
C9_CancelLaunchesNothing ==
    /\ (pickerOutcome = "cancelled" \/ (pickerOutcome = "chose" /\ choiceStr = ""))
          => (pc = "done" /\ result = "nil" /\ launched = <<>>)
    /\ launched # <<>>
          => ((pickerOutcome = "chose" /\ choiceStr # "") \/ Len(args) = 1)

\* The picker was cancelled over a non-empty list of names.
C9_Witness ==
    /\ pickerOutcome = "cancelled"
    /\ pc = "done"
    /\ names # <<>>
    /\ Len(args) = 0

\* C10: for a name chosen in the picker, the session handed to
\* tmux.CreateAndSwitchSession has the Path entries[chosen] and the Name
\* chosen without the tmux session prefix: the live session's name for a key
\* derived from a live session, the candidate's display name and its
\* resolved directory for a key derived from a directory candidate; a chosen
\* name that is no key gives the error and no launch.
C10_LaunchMatchesChoice ==
    (pickerOutcome = "chose" /\ pc = "done" /\ choiceStr # "") =>
        IF choiceStr \in DOMAIN entries
        THEN /\ Len(launched) = 1
             /\ launched[1].Path = entries[choiceStr]
             /\ launched[1].Name = CutPrefix(choiceStr, cfg.TmuxSessionPrefix)
             /\ choiceStr \in SessionKeys =>
                   /\ launched[1].Name \in existingSessions
                   /\ cfg.TmuxSessionPrefix \o launched[1].Name = choiceStr
             /\ choiceStr \in DirKeys =>
                   /\ launched[1].Name = choiceStr
                   /\ launched[1].Path \in Dirs
        ELSE /\ launched = <<>>
             /\ result = "The name must match an existing directory entry"

=============================================================================
